---------------------------- MODULE Spec2Model ----------------------------
(***************************************************************************)
(* Nearest (point) samplers of BLI_math_interp.hh, and the bilinear        *)
(* sampler it declares.                                                    *)
(*                                                                         *)
(* A texture coordinate is a fixed-point number: the integer a stands for  *)
(* the coordinate a / Den.  Texel values are integers.  One call of a      *)
(* sampler is a sequence of steps of one thread: the index computation,    *)
(* then one store per output channel.  Float rounding, NaN and coordinates *)
(* beyond the range of int are outside the model.                          *)
(***************************************************************************)
EXTENDS Integers, Sequences, FiniteSets, TLC

\* Largest image width and height.
MaxDim == 4
\* Largest channel count of a float buffer.
MaxComponents == 2
\* Coordinate steps per texel.
Den == 2
\* Largest number of image periods a coordinate is shifted by.
MaxShift == 2
\* Channels of a byte buffer.
ByteChannels == 4
\* Channels of a float4.
Float4Channels == 4
\* Content of storage that was declared and not yet assigned (uchar4 res;).
Uninit == -1

VARIABLES
  width,        \* int width
  height,       \* int height
  kind,         \* which test image the buffers hold
  byteBuffer,   \* const uchar *buffer, 4 channels per texel
  floatBuffer,  \* const float *buffer: one image per channel count
  pc,           \* per thread: position in the sampler
  fn,           \* per thread: the sampler called
  components,   \* per thread: int components (4 on the byte path)
  u, v,         \* per thread: the coordinate arguments
  x, y,         \* the locals int x, int y, by storage slot
  i,            \* per thread: the channel loop counter
  output,       \* per thread: the caller's output, indexed from 1
  rd,           \* per thread: locations loaded from by the current call
  wr            \* per thread: locations stored to by the current call

vars == <<width, height, kind, byteBuffer, floatBuffer,
          pc, fn, components, u, v, x, y, i, output, rd, wr>>

Threads == {1, 2}

BorderSamplers == {"interpolate_nearest_border_byte", "interpolate_nearest_border_fl"}
ClampSamplers == {"interpolate_nearest_byte", "interpolate_nearest_fl"}
WrapSamplers == {"interpolate_nearest_wrap_byte", "interpolate_nearest_wrap_fl"}
ByteSamplers == {"interpolate_nearest_border_byte", "interpolate_nearest_byte",
                 "interpolate_nearest_wrap_byte"}
NearestSamplers == BorderSamplers \cup ClampSamplers \cup WrapSamplers

\* Number of channels a sampler copies: 4 on the byte path, components otherwise.
Channels(f, c) == IF f \in ByteSamplers THEN ByteChannels ELSE c

\* Variant: rounds to the nearest integer instead of truncating.
RoundToInt(a) == (2 * a + Den) \div (2 * Den)
\* int(u): conversion of a float to int truncates toward zero.
TruncToInt(a) == IF a >= 0 THEN a \div Den ELSE -((-a) \div Den)

\* floored_fmod(a, b) = a - b * floor(a / b), on fixed-point operands.
floored_fmod(a, b) == a - b * (a \div b)

\* math::clamp(a, lo, hi)
clamp(a, lo, hi) == IF a < lo THEN lo ELSE IF a > hi THEN hi ELSE a

\* float(width): the extent as a coordinate.
ToFloat(n) == n * Den

\* int x = int(u);  (border samplers)
BorderIndex(a) == TruncToInt(a)

\* Variant: clamps to width instead of width - 1.
ClampIndexUpperOff(a, extent) == clamp(TruncToInt(a), 0, extent)
\* const int x = math::clamp(int(u), 0, width - 1);
ClampIndex(a, extent) == clamp(TruncToInt(a), 0, extent - 1)

\* Variants: the truncating remainder of C's % on int(u); no wrap at all.
CRem(a, b) == IF a >= 0 THEN a % b ELSE -((-a) % b)
WrapIndexTruncRem(a, extent) == CRem(TruncToInt(a), extent)
WrapIndexNoWrap(a, extent) == TruncToInt(a)
\* u = floored_fmod(u, float(width)); int x = int(u);
WrapIndex(a, extent) == TruncToInt(floored_fmod(a, ToFloat(extent)))

\* The texel index a sampler computes on one axis.
ResolveIndex(f, a, extent) ==
  IF f \in BorderSamplers THEN BorderIndex(a)
  ELSE IF f \in ClampSamplers THEN ClampIndex(a, extent)
  ELSE WrapIndex(a, extent)

\* Variant: x > width, y > height in the outside test.
OutsideImageOffByOne(xx, yy, w, h) == xx < 0 \/ xx > w \/ yy < 0 \/ yy > h
\* if (x < 0 || x >= width || y < 0 || y >= height)
OutsideImage(xx, yy, w, h) == xx < 0 \/ xx >= w \/ yy < 0 \/ yy >= h

\* BLI_assert(x >= 0 && y >= 0 && x < width && y < height);
WrapAssert(xx, yy, w, h) == xx >= 0 /\ yy >= 0 /\ xx < w /\ yy < h

\* Variant: rows of height elements instead of width.
TexelOffsetByHeight(w, h, xx, yy, c) == (h * yy + xx) * c
\* buffer + (int64_t(width) * y + x) * components
TexelOffset(w, h, xx, yy, c) == (w * yy + xx) * c

\* The values a load of buf[off] can give: the element, or anything at all
\* when off is outside the buffer.
Load(buf, off) ==
  IF off + 1 \in DOMAIN buf THEN {buf[off + 1]} ELSE {Uninit, 0}

\* The storage of the locals x and y of a call: automatic, one per call.
\* Variant: static storage, one x and y for every call.
SlotShared(t) == 1
Slot(t) == t

\* Variant: the void path stops one channel early.
VoidChannelsShort(f, c) == Channels(f, c) - 1
\* The channels the void path zeroes: output[0..3], or i < components.
VoidChannels(f, c) == Channels(f, c)

\* The channels the copy path stores: output[0..3], or i < components.
CopyChannels(f, c) == Channels(f, c)

----------------------------------------------------------------------------
\* Test images.  "ramp": every element differs and none is zero.
\* "flat": every texel has the same channels (1, 2, ..).
RampBuffer(n) == [k \in 1..n |-> ((k - 1) % 255) + 1]
FlatBuffer(n, c) == [k \in 1..n |-> ((k - 1) % c) + 1]
ImageBuffer(kd, w, h, c) ==
  IF kd = "ramp" THEN RampBuffer(w * h * c) ELSE FlatBuffer(w * h * c, c)

\* The images of a given size: a ramp, and a flat field at the largest size.
ImageKinds(w, h) ==
  IF w = MaxDim /\ h = MaxDim THEN {"ramp", "flat"} ELSE {"ramp"}

\* const uchar *buffer or const float *buffer: the image the caller passes.
BufferOf(f, c) == IF f \in ByteSamplers THEN byteBuffer ELSE floatBuffer[c]

\* The caller's output has room for one element more than any sampler writes.
OutputCap == ByteChannels + 1
FreshOutput == [k \in 1..OutputCap |-> Uninit]

\* The coordinates callers pass for an axis of the given extent: from below
\* -1 to extent + 1, every step.
Coords(extent) == (1 - 2 * Den)..((extent + 1) * Den)

\* The channel counts a caller can pass to f: any for a float sampler; a byte
\* sampler takes none.
ChannelArgs(f) == IF f \in ByteSamplers THEN {ByteChannels} ELSE 1..MaxComponents

InitThreads ==
  /\ pc = [t \in Threads |-> "idle"]
  /\ fn = [t \in Threads |-> "interpolate_nearest_fl"]
  /\ components = [t \in Threads |-> 1]
  /\ u = [t \in Threads |-> 0]
  /\ v = [t \in Threads |-> 0]
  /\ x = [t \in Threads |-> 0]
  /\ y = [t \in Threads |-> 0]
  /\ i = [t \in Threads |-> 0]
  /\ output = [t \in Threads |-> FreshOutput]
  /\ rd = [t \in Threads |-> {}]
  /\ wr = [t \in Threads |-> {}]

InitImages ==
  /\ byteBuffer = ImageBuffer(kind, width, height, ByteChannels)
  /\ floatBuffer = [c \in 1..MaxComponents |-> ImageBuffer(kind, width, height, c)]

Init ==
  /\ width \in 1..MaxDim
  /\ height \in 1..MaxDim
  /\ kind \in ImageKinds(width, height)
  /\ InitImages
  /\ InitThreads

\* A caller invokes sampler f at (a, b) with an output of its own.
Call(t, f, c, a, b) ==
  /\ pc' = [pc EXCEPT ![t] = "resolve"]
  /\ fn' = [fn EXCEPT ![t] = f]
  /\ components' = [components EXCEPT ![t] = Channels(f, c)]
  /\ u' = [u EXCEPT ![t] = a]
  /\ v' = [v EXCEPT ![t] = b]
  /\ i' = [i EXCEPT ![t] = 0]
  /\ output' = [output EXCEPT ![t] = FreshOutput]
  /\ rd' = [rd EXCEPT ![t] = {}]
  /\ wr' = [wr EXCEPT ![t] = {}]
  /\ UNCHANGED <<width, height, kind, byteBuffer, floatBuffer, x, y>>

\* The index computation: x and y are stored, then tested.
Resolve(t) ==
  /\ pc[t] = "resolve"
  /\ LET xx == ResolveIndex(fn[t], u[t], width)
         yy == ResolveIndex(fn[t], v[t], height)
     IN /\ x' = [x EXCEPT ![Slot(t)] = xx]
        /\ y' = [y EXCEPT ![Slot(t)] = yy]
        /\ wr' = [wr EXCEPT ![t] = @ \cup {<<"local", Slot(t), 0>>}]
        /\ IF fn[t] \in BorderSamplers
             THEN pc' = [pc EXCEPT ![t] =
                           IF OutsideImage(xx, yy, width, height) THEN "zero" ELSE "copy"]
           ELSE IF fn[t] \in WrapSamplers /\ ~WrapAssert(xx, yy, width, height)
             \* a debug build stops at the assertion, a release build goes on
             THEN \/ pc' = [pc EXCEPT ![t] = "abort"]
                  \/ pc' = [pc EXCEPT ![t] = "copy"]
           ELSE pc' = [pc EXCEPT ![t] = "copy"]
  /\ UNCHANGED <<width, height, kind, byteBuffer, floatBuffer,
                 fn, components, u, v, i, output, rd>>

\* output[i] = 0 on the void path of a border sampler.
ZeroChannel(t) ==
  /\ pc[t] = "zero"
  /\ LET n == VoidChannels(fn[t], components[t])
     IN IF i[t] < n
          THEN /\ output' = [output EXCEPT ![t][i[t] + 1] = 0]
               /\ wr' = [wr EXCEPT ![t] = @ \cup {<<"output", t, i[t]>>}]
               /\ i' = [i EXCEPT ![t] = @ + 1]
               /\ pc' = [pc EXCEPT ![t] = IF i[t] + 1 >= n THEN "done" ELSE "zero"]
          ELSE /\ pc' = [pc EXCEPT ![t] = "done"]
               /\ UNCHANGED <<output, wr, i>>
  /\ UNCHANGED <<width, height, kind, byteBuffer, floatBuffer,
                 fn, components, u, v, x, y, rd>>

\* output[i] = data[i] on the texel-copy path.
CopyChannel(t) ==
  /\ pc[t] = "copy"
  /\ LET n == CopyChannels(fn[t], components[t])
         off == TexelOffset(width, height, x[Slot(t)], y[Slot(t)], components[t]) + i[t]
     IN IF i[t] < n
          THEN /\ \E val \in Load(BufferOf(fn[t], components[t]), off) :
                    output' = [output EXCEPT ![t][i[t] + 1] = val]
               /\ rd' = [rd EXCEPT ![t] =
                           @ \cup {<<"local", Slot(t), 0>>, <<"buffer", 0, off>>}]
               /\ wr' = [wr EXCEPT ![t] = @ \cup {<<"output", t, i[t]>>}]
               /\ i' = [i EXCEPT ![t] = @ + 1]
               /\ pc' = [pc EXCEPT ![t] = IF i[t] + 1 >= n THEN "done" ELSE "copy"]
          ELSE /\ pc' = [pc EXCEPT ![t] = "done"]
               /\ UNCHANGED <<output, rd, wr, i>>
  /\ UNCHANGED <<width, height, kind, byteBuffer, floatBuffer,
                 fn, components, u, v, x, y>>

\* The call returns: its frame is gone and the caller has taken the result,
\* so the thread is as it was before the call and may call again.
Return(t) ==
  /\ pc[t] \in {"done", "abort"}
  /\ pc' = [pc EXCEPT ![t] = "idle"]
  /\ fn' = [fn EXCEPT ![t] = "interpolate_nearest_fl"]
  /\ components' = [components EXCEPT ![t] = 1]
  /\ u' = [u EXCEPT ![t] = 0]
  /\ v' = [v EXCEPT ![t] = 0]
  /\ x' = [x EXCEPT ![Slot(t)] = 0]
  /\ y' = [y EXCEPT ![Slot(t)] = 0]
  /\ i' = [i EXCEPT ![t] = 0]
  /\ output' = [output EXCEPT ![t] = FreshOutput]
  /\ rd' = [rd EXCEPT ![t] = {}]
  /\ wr' = [wr EXCEPT ![t] = {}]
  /\ UNCHANGED <<width, height, kind, byteBuffer, floatBuffer>>

\* A caller picks a nearest sampler, a channel count and a coordinate.
CallNearest(t) ==
  /\ pc[t] = "idle"
  /\ \E f \in NearestSamplers : \E c \in ChannelArgs(f) :
       \E a \in Coords(width) : \E b \in Coords(height) :
         Call(t, f, c, a, b)

\* One caller, every coordinate.
Next ==
  \/ CallNearest(1)
  \/ Resolve(1)
  \/ ZeroChannel(1)
  \/ CopyChannel(1)
  \/ Return(1)

Spec == Init /\ [][Next]_vars

\* The result of sampler f at (a, b) as a function of its arguments: the
\* uchar4 / float4 the by-value overloads return.
NearestSample(f, c, a, b) ==
  LET n == Channels(f, c)
      xx == ResolveIndex(f, a, width)
      yy == ResolveIndex(f, b, height)
      buf == BufferOf(f, n)
      off == TexelOffset(width, height, xx, yy, n)
  IN IF f \in BorderSamplers /\ OutsideImage(xx, yy, width, height)
       THEN [k \in 1..n |-> 0]
       ELSE [k \in 1..n |-> IF off + k \in DOMAIN buf THEN buf[off + k] ELSE Uninit]

----------------------------------------------------------------------------
\* Two callers on the same image, each with its own output, their steps
\* interleaved in every order.

\* The coordinates the concurrent callers pass: a void sample, a fractional
\* one in the first texel, one in the last.
ConcCoords(extent) == {-Den, 1, extent * Den - 1}

InitConc ==
  /\ width = MaxDim
  /\ height = MaxDim
  /\ kind = "ramp"
  /\ InitImages
  /\ InitThreads

CallConc(t) ==
  /\ pc[t] = "idle"
  /\ \E f \in NearestSamplers : \E c \in ChannelArgs(f) :
       \E a \in ConcCoords(width) : \E b \in {0, height * Den - 1} :
         Call(t, f, c, a, b)

NextConc ==
  \E t \in Threads :
    \/ CallConc(t)
    \/ Resolve(t)
    \/ ZeroChannel(t)
    \/ CopyChannel(t)
    \/ Return(t)

SpecConc == InitConc /\ [][NextConc]_vars

----------------------------------------------------------------------------
\* Bilinear sampling, clamped at the image edge (interpolate_bilinear_fl).
\* Its coordinates have twice the resolution, so that 0.5 is a coordinate: the
\* integer a stands for a / BDen.  Texel values are fixed-point with One for 1.0.
BDen == 2 * Den
One == BDen * BDen

\* floor(u) and the fractional part u - floor(u), in steps of 1 / BDen.
BilinearFloor(a) == a \div BDen
BilinearFrac(a) == a - BDen * (a \div BDen)

\* Variant: the second sample is the first one again.
BilinearNeighbourSame(x1) == x1
\* The second sample of the footprint on an axis: floor + 1.
BilinearNeighbour(x1) == x1 + 1

\* The 2x2 image of the scenario: red, green / blue, white.
RgbwImage ==
  <<One, 0, 0, One,   0, One, 0, One,
    0, 0, One, One,   One, One, One, One>>

\* (1-fx)(1-fy)*T00 + fx(1-fy)*T10 + (1-fx)fy*T01 + fx*fy*T11, per channel,
\* every sample clamped to the image.
Bilinear(buf, w, h, c, a, b) ==
  LET x1 == clamp(BilinearFloor(a), 0, w - 1)
      x2 == clamp(BilinearNeighbour(BilinearFloor(a)), 0, w - 1)
      y1 == clamp(BilinearFloor(b), 0, h - 1)
      y2 == clamp(BilinearNeighbour(BilinearFloor(b)), 0, h - 1)
      fx == BilinearFrac(a)
      fy == BilinearFrac(b)
      T(xx, yy, k) == buf[(w * yy + xx) * c + k]
  IN [k \in 1..c |->
        ( (BDen - fx) * (BDen - fy) * T(x1, y1, k)
        + fx * (BDen - fy) * T(x2, y1, k)
        + (BDen - fx) * fy * T(x1, y2, k)
        + fx * fy * T(x2, y2, k) ) \div (BDen * BDen)]

InitBilinear ==
  /\ width = 2
  /\ height = 2
  /\ kind = "rgbw"
  /\ byteBuffer = <<>>
  /\ floatBuffer = [c \in {Float4Channels} |-> RgbwImage]
  /\ InitThreads

\* float4 interpolate_bilinear_fl(buffer, width, height, u, v)
CallBilinear(t) ==
  /\ pc[t] = "idle"
  /\ \E a \in (-BDen)..((width + 1) * BDen) : \E b \in (-BDen)..((height + 1) * BDen) :
       LET res == Bilinear(floatBuffer[Float4Channels], width, height,
                           Float4Channels, a, b)
       IN /\ u' = [u EXCEPT ![t] = a]
          /\ v' = [v EXCEPT ![t] = b]
          /\ output' = [output EXCEPT ![t] =
                          [k \in 1..OutputCap |->
                             IF k <= Float4Channels THEN res[k] ELSE Uninit]]
  /\ pc' = [pc EXCEPT ![t] = "done"]
  /\ fn' = [fn EXCEPT ![t] = "interpolate_bilinear_fl"]
  /\ components' = [components EXCEPT ![t] = Float4Channels]
  /\ UNCHANGED <<width, height, kind, byteBuffer, floatBuffer, x, y, i, rd, wr>>

NextBilinear ==
  \/ CallBilinear(1)
  \/ Return(1)

SpecBilinear == InitBilinear /\ [][NextBilinear]_vars

----------------------------------------------------------------------------
\* Properties.

\* floor of a coordinate, and the floored modulo of an index.
Floor(a) == a \div Den
FlooredMod(n, m) == n - m * (n \div m)
Bounded(n, lo, hi) == IF n < lo THEN lo ELSE IF n > hi THEN hi ELSE n

Finished(t) == pc[t] = "done"
\* The channels of the output the call was asked for.
Result(t) == [k \in 1..components[t] |-> output[t][k]]
Zeros(n) == [k \in 1..n |-> 0]
\* The channels of the texel at column xx, row yy of the image f was passed.
TexelAt(f, n, xx, yy) ==
  [k \in 1..n |-> BufferOf(f, n)[(width * yy + xx) * n + k]]
BufferReads(t) == {loc \in rd[t] : loc[1] = "buffer"}
FloorOutside(t) ==
  \/ Floor(u[t]) < 0 \/ Floor(u[t]) >= width
  \/ Floor(v[t]) < 0 \/ Floor(v[t]) >= height
InBounds(t) ==
  /\ 0 <= u[t] /\ u[t] < width * Den
  /\ 0 <= v[t] /\ v[t] < height * Den

\* C1: a border sampler called where floor(u) or floor(v) is outside the image
\* writes zero to every channel and reads no element of the buffer, also for
\* -1 < u < 0.
C1_BorderVoidWhereFloorOutside ==
  \A t \in Threads :
    (Finished(t) /\ fn[t] \in BorderSamplers /\ FloorOutside(t))
      => (Result(t) = Zeros(components[t]) /\ BufferReads(t) = {})

\* C2: a border sampler called with u = -1 or u = width, or v = -1 or
\* v = height, or one past the image on both axes (u = 5, v = 5 on 4x4), writes
\* zero to every channel.
C2_BorderZeroing ==
  \A t \in Threads :
    ( /\ Finished(t)
      /\ fn[t] \in BorderSamplers
      /\ \/ u[t] \in {-Den, width * Den}
         \/ v[t] \in {-Den, height * Den}
         \/ (u[t] = (width + 1) * Den /\ v[t] = (height + 1) * Den) )
      => Result(t) = Zeros(components[t])

C2_Witness ==
  \E t \in Threads :
    /\ Finished(t) /\ fn[t] \in BorderSamplers /\ kind = "ramp"
    /\ width = 4 /\ height = 4 /\ u[t] = 5 * Den /\ v[t] = 5 * Den
    /\ Result(t) = Zeros(components[t])

\* C3: a clamp sampler copies the texel at column clamp(floor(u), 0, width-1)
\* and row clamp(floor(v), 0, height-1), for negative and fractional
\* coordinates too.
C3_ClampCopiesClampedFloor ==
  \A t \in Threads :
    (Finished(t) /\ fn[t] \in ClampSamplers)
      => LET cx == Bounded(Floor(u[t]), 0, width - 1)
             cy == Bounded(Floor(v[t]), 0, height - 1)
         IN /\ x[t] = cx /\ y[t] = cy
            /\ BufferReads(t) =
                 {<<"buffer", 0, (width * cy + cx) * components[t] + k>> :
                    k \in 0..(components[t] - 1)}
            /\ Result(t) = TexelAt(fn[t], components[t], cx, cy)

C3_Witness ==
  \E t \in Threads :
    /\ Finished(t) /\ fn[t] \in ClampSamplers /\ kind = "ramp"
    /\ u[t] < 0 /\ u[t] % Den # 0 /\ v[t] > height * Den
    /\ width > 1 /\ height > 1

\* C4: a wrap sampler resolves x = floor(u) floored-modulo width and
\* y = floor(v) floored-modulo height, which lie in the image, so its
\* assertion never fails.
C4_WrapIndexInImage ==
  \A t \in Threads :
    fn[t] \in WrapSamplers =>
      /\ pc[t] # "abort"
      /\ pc[t] \in {"copy", "done"} =>
           /\ x[t] = FlooredMod(Floor(u[t]), width)
           /\ y[t] = FlooredMod(Floor(v[t]), height)
           /\ 0 <= x[t] /\ x[t] < width
           /\ 0 <= y[t] /\ y[t] < height

C4_Witness ==
  \E t \in Threads :
    /\ fn[t] \in WrapSamplers /\ pc[t] = "copy"
    /\ u[t] < 0 /\ u[t] % Den # 0 /\ v[t] >= height * Den
    /\ width > 1 /\ x[t] = width - 1

\* C5: the result of a wrap sampler at (u, v) is its result at
\* (u + k*width, v + j*height) for all integers k and j.
C5_WrapPeriodic ==
  \A t \in Threads :
    (Finished(t) /\ fn[t] \in WrapSamplers) =>
      \A k \in (-MaxShift)..MaxShift : \A j \in (-MaxShift)..MaxShift :
        Result(t) = NearestSample(fn[t], components[t],
                                  u[t] + k * width * Den, v[t] + j * height * Den)

C5_Witness ==
  \E t \in Threads :
    /\ Finished(t) /\ fn[t] \in WrapSamplers /\ kind = "ramp"
    /\ width > 1 /\ u[t] = -1 /\ v[t] = 0
    /\ Result(t) = NearestSample(fn[t], components[t], width * Den - 1, 0)
    /\ Result(t) # NearestSample(fn[t], components[t], 0, 0)

\* C6: at an in-bounds coordinate every nearest sampler copies the channels of
\* the texel at (floor(u), floor(v)); on a flat field that is the field's value.
C6_InBoundsVerbatim ==
  \A t \in Threads :
    (Finished(t) /\ fn[t] \in NearestSamplers /\ InBounds(t)) =>
      /\ \A k \in 0..(components[t] - 1) :
           output[t][k + 1] =
             BufferOf(fn[t], components[t])
               [(width * Floor(v[t]) + Floor(u[t])) * components[t] + k + 1]
      /\ kind = "flat" => \A k \in 1..components[t] : output[t][k] = k

C6_Witness ==
  \E t \in Threads :
    /\ Finished(t) /\ fn[t] \in BorderSamplers /\ InBounds(t) /\ kind = "ramp"
    /\ u[t] % Den # 0 /\ Floor(u[t]) = width - 1 /\ Floor(v[t]) = height - 1
    /\ width = 2 /\ height = 3

\* C7: a nearest sampler call stores to each of output[0..components-1], on
\* the void path as on the copy path, to no other element of the output and to
\* no element of the buffer.
C7_OutputFullyWrittenOnly ==
  /\ kind \in {"ramp", "flat"} =>
       /\ byteBuffer = ImageBuffer(kind, width, height, ByteChannels)
       /\ floatBuffer =
            [c \in 1..MaxComponents |-> ImageBuffer(kind, width, height, c)]
  /\ \A t \in Threads :
       /\ \A loc \in wr[t] :
            \/ loc[1] = "local"
            \/ loc[1] = "output" /\ loc[2] = t /\ loc[3] \in 0..(components[t] - 1)
       /\ \A k \in 1..OutputCap : k > components[t] => output[t][k] = Uninit
       /\ Finished(t) =>
            \A k \in 0..(components[t] - 1) :
              <<"output", t, k>> \in wr[t] /\ output[t][k + 1] # Uninit

C7_Witness ==
  \E t \in Threads :
    /\ Finished(t) /\ fn[t] = "interpolate_nearest_border_fl"
    /\ components[t] = MaxComponents /\ BufferReads(t) = {}
    /\ Result(t) = Zeros(MaxComponents)

\* C8: with two callers' steps interleaved, a finished call has the result of
\* the same call run alone, and no call stores to a location the other call
\* loads from or stores to.
C8_Reentrant ==
  /\ \A t \in Threads :
       Finished(t) => Result(t) = NearestSample(fn[t], components[t], u[t], v[t])
  /\ \A t1 \in Threads : \A t2 \in Threads \ {t1} :
       wr[t1] \cap (rd[t2] \cup wr[t2]) = {}

C8_Witness ==
  /\ pc[1] = "done" /\ pc[2] = "copy" /\ i[2] >= 1
  /\ fn[1] = "interpolate_nearest_byte" /\ fn[2] = "interpolate_nearest_wrap_fl"
  /\ u[1] = u[2] /\ v[1] = v[2] /\ u[1] = -Den
  /\ x[1] # x[2]

Average == <<One \div 2, One \div 2, One \div 2, One>>

\* C9 as stated: on the 2x2 red/green/blue/white image a bilinear sample at
\* u = 1.0, v = 1.0 yields (0.5, 0.5, 0.5, 1.0).
C9_AverageAtOneOne ==
  \A t \in Threads :
    (Finished(t) /\ fn[t] = "interpolate_bilinear_fl" /\ u[t] = BDen /\ v[t] = BDen)
      => Result(t) = Average

\* C9 amended: on the 2x2 red/green/blue/white image a bilinear sample at
\* u = 0.5, v = 0.5 yields (0.5, 0.5, 0.5, 1.0).
C9_AverageAtHalfHalf ==
  \A t \in Threads :
    (Finished(t) /\ fn[t] = "interpolate_bilinear_fl" /\ u[t] = Den /\ v[t] = Den)
      => Result(t) = Average

C9_Witness ==
  \E t \in Threads :
    /\ Finished(t) /\ fn[t] = "interpolate_bilinear_fl"
    /\ u[t] = Den /\ v[t] = Den /\ Result(t) = Average

\* C10: every buffer element a nearest sampler reads is at an offset
\* (width*y + x)*components + i with 0 <= x < width, 0 <= y < height and
\* 0 <= i < components, inside the buffer.
C10_ReadsInsideBuffer ==
  \A t \in Threads : \A loc \in BufferReads(t) :
    /\ 0 <= loc[3] /\ loc[3] < width * height * components[t]
    /\ \E xx \in 0..(width - 1) : \E yy \in 0..(height - 1) :
         \E k \in 0..(components[t] - 1) :
           loc[3] = (width * yy + xx) * components[t] + k

C10_Witness ==
  \E t \in Threads :
    /\ Finished(t) /\ fn[t] \in ClampSamplers
    /\ u[t] = (width + 1) * Den /\ v[t] < -Den
    /\ Cardinality(BufferReads(t)) = components[t]
    /\ components[t] > 1 /\ width > 1 /\ height > 1

=============================================================================
